---- MODULE Spec2Model ----
(***************************************************************************)
(* dnessie: a minimal DNS forwarder (src/src/main.rs).                     *)
(*                                                                         *)
(* The codec (Dns::parse, Dns::serialise, Dns::append_to_buffer), the      *)
(* message constructors (Dns::request, Dns::respond) and the serving loop  *)
(* of main are modelled over 512-byte buffers.  Bytes are 0..255, u16      *)
(* values are 0..65535, and every conversion between them is computed      *)
(* big-endian as the code does.  An index outside an array is a Rust       *)
(* panic and is modelled as the outcome "Panic".                           *)
(***************************************************************************)
EXTENDS Integers, Sequences, FiniteSets, TLC

(***************************************************************************)
(* Program constants.                                                      *)
(***************************************************************************)
BufLen == 512
NameCap == 253
MaxLabelLen == 63
domain_name_start == 12
DNS_FLAG_RESPONSE == 32768
RequestFlags == 256
RequestTransactionId == <<19, 55>>

(***************************************************************************)
(* Bounds of the model.                                                    *)
(***************************************************************************)
MaxLabels == 4
MaxCycles == 2

(***************************************************************************)
(* Integer <-> byte conversions.                                           *)
(***************************************************************************)
U16FromBe(hi, lo) == hi * 256 + lo

U16ToBe(x) == << (x \div 256) % 256, x % 256 >>

U32FromBe(b) == ((b[1] * 256 + b[2]) * 256 + b[3]) * 256 + b[4]

U32ToBe(x) ==
    << (x \div 16777216) % 256, (x \div 65536) % 256, (x \div 256) % 256, x % 256 >>

(* A buffer [u8; 512] is held as the sequence of its leading bytes: the    *)
(* bytes after them, up to index 511, are zero.  ZeroBuf is [0u8; 512].    *)
(* The name storage [u8; 253] of a Query is held the same way.             *)
ZeroBuf == << >>

ByteAt(buf, i) == IF i < Len(buf) THEN buf[i + 1] ELSE 0

(***************************************************************************)
(* Dns::parse.  The label loop: ptr is domain_name_pointer on entry to an  *)
(* iteration.  The result carries the index of the length byte read last.  *)
(***************************************************************************)
(* Variants of the label loop with one check changed.                      *)
RECURSIVE LabelWalkCapOffByOne(_, _)
LabelWalkCapOffByOne(payload, ptr) ==
    LET idx == domain_name_start + ptr IN
    IF idx >= BufLen
    THEN [kind |-> "Panic", ptr |-> ptr, idx |-> idx]
    ELSE LET label_len == ByteAt(payload, idx)
             next == ptr + label_len + 1
         IN  IF label_len > MaxLabelLen
             THEN [kind |-> "DnsLabelTooLong", ptr |-> ptr, idx |-> idx]
             ELSE IF next >= NameCap
             THEN [kind |-> "DnsNameTooLong", ptr |-> next, idx |-> idx]
             ELSE IF label_len = 0
             THEN [kind |-> "Ok", ptr |-> next, idx |-> idx]
             ELSE LabelWalkCapOffByOne(payload, next)

RECURSIVE LabelWalkCapFirst(_, _)
LabelWalkCapFirst(payload, ptr) ==
    LET idx == domain_name_start + ptr IN
    IF idx >= BufLen
    THEN [kind |-> "Panic", ptr |-> ptr, idx |-> idx]
    ELSE LET label_len == ByteAt(payload, idx)
             next == ptr + label_len + 1
         IN  IF next > NameCap
             THEN [kind |-> "DnsNameTooLong", ptr |-> next, idx |-> idx]
             ELSE IF label_len > MaxLabelLen
             THEN [kind |-> "DnsLabelTooLong", ptr |-> ptr, idx |-> idx]
             ELSE IF label_len = 0
             THEN [kind |-> "Ok", ptr |-> next, idx |-> idx]
             ELSE LabelWalkCapFirst(payload, next)

RECURSIVE LabelWalkNoCap(_, _)
LabelWalkNoCap(payload, ptr) ==
    LET idx == domain_name_start + ptr IN
    IF idx >= BufLen
    THEN [kind |-> "Panic", ptr |-> ptr, idx |-> idx]
    ELSE LET label_len == ByteAt(payload, idx)
             next == ptr + label_len + 1
         IN  IF label_len > MaxLabelLen
             THEN [kind |-> "DnsLabelTooLong", ptr |-> ptr, idx |-> idx]
             ELSE IF label_len = 0
             THEN [kind |-> "Ok", ptr |-> next, idx |-> idx]
             ELSE LabelWalkNoCap(payload, next)

RECURSIVE LabelWalk(_, _)
LabelWalk(payload, ptr) ==
    LET idx == domain_name_start + ptr IN
    IF idx >= BufLen
    THEN [kind |-> "Panic", ptr |-> ptr, idx |-> idx]
    ELSE LET label_len == ByteAt(payload, idx)
             next == ptr + label_len + 1
         IN  IF label_len > MaxLabelLen
             THEN [kind |-> "DnsLabelTooLong", ptr |-> ptr, idx |-> idx]
             ELSE IF next > NameCap
             THEN [kind |-> "DnsNameTooLong", ptr |-> next, idx |-> idx]
             ELSE IF label_len = 0
             THEN [kind |-> "Ok", ptr |-> next, idx |-> idx]
             ELSE LabelWalk(payload, next)

(* The Option<Answer> read when answer_records > 0: <<>> is None.          *)
ParseAnswer(payload, query_end, answer_records) ==
    IF answer_records > 0
    THEN << [name    |-> << ByteAt(payload, query_end), ByteAt(payload, query_end + 1) >>,
             ty      |-> U16FromBe(ByteAt(payload, query_end + 2), ByteAt(payload, query_end + 3)),
             class   |-> U16FromBe(ByteAt(payload, query_end + 4), ByteAt(payload, query_end + 5)),
             ttl     |-> U32FromBe(<< ByteAt(payload, query_end + 6), ByteAt(payload, query_end + 7),
                                      ByteAt(payload, query_end + 8), ByteAt(payload, query_end + 9) >>),
             len     |-> U16FromBe(ByteAt(payload, query_end + 10), ByteAt(payload, query_end + 11)),
             address |-> << ByteAt(payload, query_end + 12), ByteAt(payload, query_end + 13),
                            ByteAt(payload, query_end + 14), ByteAt(payload, query_end + 15) >>] >>
    ELSE << >>

(* The highest index the body of parse reads after a successful walk.      *)
LastIndexRead(domain_name_end, answer_records) ==
    IF answer_records > 0 THEN domain_name_end + 4 + 15 ELSE domain_name_end + 3

(* Variant: only the low byte of the question count is compared.           *)
TooManyQuestionsLowByte(questions) == questions % 256 > 1

TooManyQuestions(questions) == questions > 1

Failure(kind, max_index) == [kind |-> kind, msg |-> << >>, max_index |-> max_index]

Parse(payload) ==
    LET transaction_id == << ByteAt(payload, 0), ByteAt(payload, 1) >>
        flags == U16FromBe(ByteAt(payload, 2), ByteAt(payload, 3))
        questions == U16FromBe(ByteAt(payload, 4), ByteAt(payload, 5))
    IN
    IF TooManyQuestions(questions)
    THEN Failure("OnlyOneQuestionSupported", 5)
    ELSE
    LET answer_records == U16FromBe(ByteAt(payload, 6), ByteAt(payload, 7))
        authority_records == U16FromBe(ByteAt(payload, 8), ByteAt(payload, 9))
        additional_records == U16FromBe(ByteAt(payload, 10), ByteAt(payload, 11))
        walk == LabelWalk(payload, 0)
    IN
    IF walk.kind # "Ok"
    THEN Failure(walk.kind, walk.idx)
    ELSE
    LET domain_name_pointer == walk.ptr
        domain_name_end == domain_name_start + domain_name_pointer
        last == LastIndexRead(domain_name_end, answer_records)
    IN
    IF last >= BufLen
    THEN Failure("Panic", last)
    ELSE
    LET domain_name == [i \in 1..domain_name_pointer |->
                            ByteAt(payload, domain_name_start + i - 1)]
        query_ty == U16FromBe(ByteAt(payload, domain_name_end), ByteAt(payload, domain_name_end + 1))
        query_class == U16FromBe(ByteAt(payload, domain_name_end + 2), ByteAt(payload, domain_name_end + 3))
        query_end == domain_name_end + 4
    IN
    [kind |-> "Ok",
     msg |-> << [transaction_id     |-> transaction_id,
                 flags              |-> flags,
                 questions          |-> questions,
                 answer_records     |-> answer_records,
                 authority_records  |-> authority_records,
                 additional_records |-> additional_records,
                 query  |-> [domain_name     |-> domain_name,
                             domain_name_len |-> domain_name_pointer,
                             ty              |-> query_ty,
                             class           |-> query_class],
                 answer |-> ParseAnswer(payload, query_end, answer_records)] >>,
     max_index |-> last]

(***************************************************************************)
(* Dns::request and Dns::respond.                                          *)
(***************************************************************************)
(* Variant: the forward query carries another fixed id.                    *)
RequestZeroId(query) ==
    [transaction_id     |-> << 0, 0 >>,
     flags              |-> RequestFlags,
     questions          |-> 1,
     answer_records     |-> 0,
     authority_records  |-> 0,
     additional_records |-> 0,
     query              |-> query,
     answer             |-> << >>]

Request(query) ==
    [transaction_id     |-> RequestTransactionId,
     flags              |-> RequestFlags,
     questions          |-> 1,
     answer_records     |-> 0,
     authority_records  |-> 0,
     additional_records |-> 0,
     query              |-> query,
     answer             |-> << >>]

(* Variants: respond takes the id, or the question, of the upstream reply. *)
RespondCopiesId(self, response_from_forward_dns) ==
    [self EXCEPT !.flags = DNS_FLAG_RESPONSE,
                 !.answer_records = 1,
                 !.authority_records = 0,
                 !.additional_records = 0,
                 !.transaction_id = response_from_forward_dns.transaction_id,
                 !.answer = response_from_forward_dns.answer]

RespondCopiesQuery(self, response_from_forward_dns) ==
    [self EXCEPT !.flags = DNS_FLAG_RESPONSE,
                 !.answer_records = 1,
                 !.authority_records = 0,
                 !.additional_records = 0,
                 !.query = response_from_forward_dns.query,
                 !.answer = response_from_forward_dns.answer]

Respond(self, response_from_forward_dns) ==
    [self EXCEPT !.flags = DNS_FLAG_RESPONSE,
                 !.answer_records = 1,
                 !.authority_records = 0,
                 !.additional_records = 0,
                 !.answer = response_from_forward_dns.answer]

(***************************************************************************)
(* Dns::serialise and Dns::append_to_buffer.  The cursor holds the bytes   *)
(* written to buf[0 .. buf_ptr) so far (buf_ptr is their number); a slice  *)
(* that ends outside the destination panics.  Serialise returns the        *)
(* destination buffer with those bytes laid over it, and buf_ptr.          *)
(***************************************************************************)
AppendToBuffer(cur, bytes) ==
    LET bytes_len == Len(bytes) IN
    IF cur.panic \/ cur.buf_ptr + bytes_len > BufLen
    THEN [cur EXCEPT !.panic = TRUE]
    ELSE [out |-> cur.out \o bytes,
          buf_ptr |-> cur.buf_ptr + bytes_len,
          panic |-> FALSE]

RECURSIVE AppendAll(_, _)
AppendAll(cur, fields) ==
    IF fields = << >> THEN cur
    ELSE AppendAll(AppendToBuffer(cur, Head(fields)), Tail(fields))

(* Variant: the whole name storage is written, not its first              *)
(* domain_name_len bytes.                                                  *)
NameSliceWhole(query) == [i \in 1..NameCap |-> ByteAt(query.domain_name, i - 1)]

NameSlice(query) == [i \in 1..query.domain_name_len |-> ByteAt(query.domain_name, i - 1)]

HeaderFields(self) ==
    << self.transaction_id,
       U16ToBe(self.flags),
       U16ToBe(self.questions),
       U16ToBe(self.answer_records),
       U16ToBe(self.authority_records),
       U16ToBe(self.additional_records),
       NameSlice(self.query),
       U16ToBe(self.query.ty),
       U16ToBe(self.query.class) >>

AnswerFields(answer) ==
    << answer.name,
       U16ToBe(answer.ty),
       U16ToBe(answer.class),
       U32ToBe(answer.ttl),
       U16ToBe(answer.len),
       answer.address >>

WritesAnswer(self) == self.answer # << >>

Serialise(self, buf) ==
    IF self.query.domain_name_len > NameCap
    THEN [buf |-> buf, buf_ptr |-> 0, panic |-> TRUE]
    ELSE
    LET start == [out |-> << >>, buf_ptr |-> 0, panic |-> FALSE]
        head == AppendAll(start, HeaderFields(self))
        cur == IF WritesAnswer(self)
               THEN AppendAll(head, AnswerFields(self.answer[1]))
               ELSE head
    IN  [buf |-> [i \in 1..(IF Len(cur.out) > Len(buf) THEN Len(cur.out) ELSE Len(buf)) |->
                     IF i <= Len(cur.out) THEN cur.out[i] ELSE buf[i]],
         buf_ptr |-> cur.buf_ptr,
         panic |-> cur.panic]

(* &send_buf[..len]: the datagram handed to the socket.                    *)
Datagram(cur) == [i \in 1..cur.buf_ptr |-> ByteAt(cur.buf, i - 1)]

(***************************************************************************)
(* Inputs.  A datagram is written into a zeroed 512-byte buffer            *)
(* (recv_from / recv into [0u8; 512]), so every input buffer is a byte     *)
(* string padded with zeros.  Names are built from a list of label length  *)
(* bytes; label contents are the byte `fill`.                              *)
(***************************************************************************)
RECURSIVE NameBytes(_, _)
NameBytes(labels, fill) ==
    IF labels = << >> THEN << 0 >>
    ELSE << Head(labels) >> \o [i \in 1..Head(labels) |-> fill]
            \o NameBytes(Tail(labels), fill)

BufOf(bytes) == IF Len(bytes) > BufLen THEN SubSeq(bytes, 1, BufLen) ELSE bytes

AnswerA == [name |-> << 192, 12 >>, ty |-> 1, class |-> 1, ttl |-> 38,
            len |-> 4, address |-> << 142, 250, 200, 3 >>]

AnswerB == [name |-> << 192, 12 >>, ty |-> 1, class |-> 256, ttl |-> 16909060,
            len |-> 4, address |-> << 10, 0, 0, 1 >>]

WireAnswerA == << 192, 12, 0, 1, 0, 1, 0, 0, 0, 38, 0, 4, 142, 250, 200, 3 >>

WireAnswerB == << 192, 12, 0, 1, 1, 0, 1, 2, 3, 4, 0, 4, 10, 0, 0, 1 >>

BuildPayload(tid, flags, qd, an, labels, fill, tail) ==
    BufOf(tid \o U16ToBe(flags) \o U16ToBe(qd) \o U16ToBe(an) \o << 0, 0, 0, 0 >>
          \o NameBytes(labels, fill) \o << 0, 1, 0, 1 >> \o tail)

RECURSIVE SeqsUpTo(_, _)
SeqsUpTo(S, n) ==
    IF n = 0 THEN { << >> }
    ELSE LET shorter == SeqsUpTo(S, n - 1)
         IN  shorter \cup { << x >> \o s : x \in S, s \in { t \in shorter : Len(t) = n - 1 } }

RECURSIVE EncodedLen(_)
EncodedLen(labels) ==
    IF labels = << >> THEN 1 ELSE Head(labels) + 1 + EncodedLen(Tail(labels))

(* Payloads given to the codec on its own: every list of at most n label  *)
(* length bytes around the limits, and two ordinary names.                 *)
LabelLens == {3, 59, 60, 63, 64}

PayloadNames(n) == SeqsUpTo(LabelLens, n) \cup { << 3, 7, 3 >>, << 3, 255 >> }

PayloadCounts == { << 0, 1 >>, << 1, 0 >>, << 1, 1 >>, << 2, 1 >>, << 256, 0 >> }

Payloads(n) ==
    { BuildPayload(<< 171, 205 >>, 256, c[1], c[2], labels, 97, WireAnswerA) :
        c \in PayloadCounts, labels \in PayloadNames(n) }

(* Messages given to serialise on its own: the answer count and the        *)
(* presence of the answer vary independently; `pad` fills the name storage *)
(* beyond domain_name_len.                                                 *)
MessageLabelLens == {59, 63}

MessageNames(n) ==
    { l \in SeqsUpTo(MessageLabelLens, n) \cup { << 3, 7, 3 >> } : EncodedLen(l) <= NameCap }

BuildQuery(labels, fill, pad, ty) ==
    LET bytes == NameBytes(labels, fill) IN
    [domain_name |-> IF pad = 0 THEN bytes
                     ELSE [i \in 1..NameCap |-> IF i <= Len(bytes) THEN bytes[i] ELSE pad],
     domain_name_len |-> Len(bytes),
     ty |-> ty,
     class |-> 1]

MessageShapes == { << 0, 0 >>, << 1, 0 >>, << 1, 255 >>, << 2, 0 >> }

Messages(n) ==
    { [transaction_id     |-> << 171, 205 >>,
       flags              |-> 33152,
       questions          |-> sh[1],
       answer_records     |-> an,
       authority_records  |-> 0,
       additional_records |-> 258,
       query              |-> BuildQuery(labels, 97, sh[2], 28),
       answer             |-> ans] :
        sh \in MessageShapes, an \in {0, 1, 2}, labels \in MessageNames(n),
        ans \in { << >>, << AnswerA >>, << AnswerB >> } }

(* Datagrams of the serving loop.                                          *)
ClientNames ==
    { << >>, << 3, 7, 3 >>, << 63, 63, 63, 59 >>, << 63, 63, 63, 60 >>, << 64 >>, << 3, 255 >> }

ClientDatagrams ==
    { BuildPayload(tid, 256, qd, an, labels, 97, IF an > 0 THEN WireAnswerB ELSE << >>) :
        tid \in { << 19, 55 >>, << 171, 205 >> }, qd \in {0, 1, 2}, an \in {0, 1},
        labels \in ClientNames }

UpstreamNames == { << 3, 7, 3 >>, << 1 >>, << 63, 63, 63, 59 >>, << 64 >> }

UpstreamReplies ==
    { BuildPayload(tid, 33152, qd, an, labels, 97, IF an > 0 THEN WireAnswerA ELSE << >>) :
        tid \in { << 19, 55 >>, << 0, 1 >> }, qd \in {1, 2}, an \in {0, 1, 2},
        labels \in UpstreamNames }

(***************************************************************************)
(* State.                                                                  *)
(*   pc, recv_buf, request, fwd_recv_buf, forward_response: main's         *)
(*     position and locals;                                                *)
(*   fwd_datagram, client_datagram: what this iteration has sent on        *)
(*     forward_socket and on socket (<< >>: nothing);                      *)
(*   printed: what this iteration has printed;                             *)
(*   max_read, written: highest index read by the last parse, bytes        *)
(*     written by the last serialise;                                      *)
(*   cycles, dropped: iterations of the loop started, iterations ended by  *)
(*     a parse error;                                                      *)
(*   c_pc, c_payload, c_msg, c_result, c_wire: the codec applied on its    *)
(*     own to one input.                                                   *)
(***************************************************************************)
VARIABLES pc, recv_buf, request, fwd_recv_buf, forward_response,
          fwd_datagram, client_datagram, printed, max_read, written,
          cycles, dropped,
          c_pc, c_payload, c_msg, c_result, c_wire

loop_vars == << pc, recv_buf, request, fwd_recv_buf, forward_response,
                fwd_datagram, client_datagram, printed, max_read, written,
                cycles, dropped >>

codec_vars == << c_pc, c_payload, c_msg, c_result, c_wire >>

vars == << loop_vars, codec_vars >>

(* A local that is not in scope.                                           *)
NoBuf == << >>

NoResult == [kind |-> "None", msg |-> << >>, max_index |-> 0]

NoWire == [buf |-> NoBuf, buf_ptr |-> 0, panic |-> FALSE]

ParseErrors == {"DnsLabelTooLong", "DnsNameTooLong", "OnlyOneQuestionSupported"}

LoopInit ==
    /\ pc = "recv"
    /\ recv_buf = NoBuf
    /\ request = << >>
    /\ fwd_recv_buf = NoBuf
    /\ forward_response = << >>
    /\ fwd_datagram = << >>
    /\ client_datagram = << >>
    /\ printed = ""
    /\ max_read = 0
    /\ written = 0
    /\ cycles = 0
    /\ dropped = 0

CodecIdle ==
    /\ c_pc = "idle"
    /\ c_payload = NoBuf
    /\ c_msg = << >>
    /\ c_result = NoResult
    /\ c_wire = NoWire

(***************************************************************************)
(* The serving loop of main.                                               *)
(***************************************************************************)
(* `continue` and the end of the loop body: the locals go out of scope.    *)
DropLocals ==
    /\ recv_buf' = NoBuf
    /\ request' = << >>
    /\ fwd_recv_buf' = NoBuf
    /\ forward_response' = << >>

(* socket.recv_from fills a fresh recv_buf.                                *)
Recv ==
    /\ pc = "recv"
    /\ cycles < MaxCycles
    /\ \E d \in ClientDatagrams : recv_buf' = d
    /\ pc' = "parse_request"
    /\ cycles' = cycles + 1
    /\ fwd_datagram' = << >>
    /\ client_datagram' = << >>
    /\ printed' = ""
    /\ max_read' = 0
    /\ written' = 0
    /\ UNCHANGED << request, fwd_recv_buf, forward_response, dropped >>
    /\ UNCHANGED codec_vars

(* socket.recv_from fails: continue.                                       *)
RecvError ==
    /\ pc = "recv"
    /\ cycles < MaxCycles
    /\ pc' = "recv"
    /\ cycles' = cycles + 1
    /\ fwd_datagram' = << >>
    /\ client_datagram' = << >>
    /\ printed' = ""
    /\ max_read' = 0
    /\ written' = 0
    /\ DropLocals
    /\ UNCHANGED dropped
    /\ UNCHANGED codec_vars

RequestParseFailed(r) ==
    /\ printed' = r.kind
    /\ pc' = "recv"
    /\ dropped' = dropped + 1
    /\ DropLocals
    /\ UNCHANGED << fwd_datagram, client_datagram, written >>

ParseRequest ==
    /\ pc = "parse_request"
    /\ LET r == Parse(recv_buf) IN
       /\ max_read' = r.max_index
       /\ IF r.kind = "Ok"
          THEN /\ request' = r.msg
               /\ pc' = "forward"
               /\ UNCHANGED << recv_buf, fwd_recv_buf, forward_response, fwd_datagram,
                               client_datagram, printed, written, dropped >>
          ELSE RequestParseFailed(r)
    /\ UNCHANGED cycles
    /\ UNCHANGED codec_vars

(* Dns::request, serialise into a fresh send_buf, forward_socket.send.     *)
Forward ==
    /\ pc = "forward"
    /\ LET forward_request == Request(request[1].query)
           cur == Serialise(forward_request, ZeroBuf)
       IN  IF cur.panic
           THEN /\ pc' = "panic_index"
                /\ UNCHANGED << fwd_datagram, written >>
           ELSE /\ pc' = "await_upstream"
                /\ fwd_datagram' = Datagram(cur)
                /\ written' = cur.buf_ptr
    /\ UNCHANGED << recv_buf, request, fwd_recv_buf, forward_response, client_datagram,
                    printed, max_read, cycles, dropped >>
    /\ UNCHANGED codec_vars

(* forward_socket.send fails: unwrap panics.                               *)
ForwardSendError ==
    /\ pc = "forward"
    /\ pc' = "panic_io"
    /\ UNCHANGED << recv_buf, request, fwd_recv_buf, forward_response, fwd_datagram,
                    client_datagram, printed, max_read, written, cycles, dropped >>
    /\ UNCHANGED codec_vars

(* forward_socket.recv fills the second recv_buf.                          *)
UpstreamRecv ==
    /\ pc = "await_upstream"
    /\ \E d \in UpstreamReplies : fwd_recv_buf' = d
    /\ pc' = "parse_response"
    /\ UNCHANGED << recv_buf, request, forward_response, fwd_datagram, client_datagram,
                    printed, max_read, written, cycles, dropped >>
    /\ UNCHANGED codec_vars

(* forward_socket.recv fails: unwrap panics.                               *)
UpstreamRecvError ==
    /\ pc = "await_upstream"
    /\ pc' = "panic_io"
    /\ UNCHANGED << recv_buf, request, fwd_recv_buf, forward_response, fwd_datagram,
                    client_datagram, printed, max_read, written, cycles, dropped >>
    /\ UNCHANGED codec_vars

(* Variant: the upstream reply is unwrapped instead of matched.            *)
ResponseParseUnwrapped(r) ==
    /\ printed' = r.kind
    /\ pc' = "panic_io"
    /\ dropped' = dropped
    /\ UNCHANGED << recv_buf, request, fwd_recv_buf, forward_response,
                    fwd_datagram, client_datagram, written >>

ResponseParseFailed(r) ==
    /\ printed' = r.kind
    /\ pc' = "recv"
    /\ dropped' = dropped + 1
    /\ DropLocals
    /\ UNCHANGED << fwd_datagram, client_datagram, written >>

ParseResponse ==
    /\ pc = "parse_response"
    /\ LET r == Parse(fwd_recv_buf) IN
       /\ max_read' = r.max_index
       /\ IF r.kind = "Ok"
          THEN /\ forward_response' = r.msg
               /\ printed' = "forward_response"
               /\ pc' = "respond"
               /\ UNCHANGED << recv_buf, request, fwd_recv_buf, fwd_datagram,
                               client_datagram, written, dropped >>
          ELSE ResponseParseFailed(r)
    /\ UNCHANGED cycles
    /\ UNCHANGED codec_vars

(* request.respond, serialise into a fresh send_buf, socket.send_to.       *)
RespondToClient ==
    /\ pc = "respond"
    /\ LET response == Respond(request[1], forward_response[1])
           cur == Serialise(response, ZeroBuf)
       IN  /\ request' = << response >>
           /\ IF cur.panic
              THEN /\ pc' = "panic_index"
                   /\ UNCHANGED << client_datagram, written >>
              ELSE /\ pc' = "sent"
                   /\ client_datagram' = Datagram(cur)
                   /\ written' = cur.buf_ptr
    /\ UNCHANGED << recv_buf, fwd_recv_buf, forward_response, fwd_datagram,
                    printed, max_read, cycles, dropped >>
    /\ UNCHANGED codec_vars

(* socket.send_to fails: unwrap panics.                                    *)
SendToError ==
    /\ pc = "respond"
    /\ pc' = "panic_io"
    /\ request' = << Respond(request[1], forward_response[1]) >>
    /\ UNCHANGED << recv_buf, fwd_recv_buf, forward_response, fwd_datagram,
                    client_datagram, printed, max_read, written, cycles, dropped >>
    /\ UNCHANGED codec_vars

(* End of the loop body.                                                   *)
NextIteration ==
    /\ pc = "sent"
    /\ pc' = "recv"
    /\ DropLocals
    /\ UNCHANGED << fwd_datagram, client_datagram, printed, max_read, written,
                    cycles, dropped >>
    /\ UNCHANGED codec_vars

Init == LoopInit /\ CodecIdle

Next ==
    \/ Recv
    \/ RecvError
    \/ ParseRequest
    \/ Forward
    \/ ForwardSendError
    \/ UpstreamRecv
    \/ UpstreamRecvError
    \/ ParseResponse
    \/ RespondToClient
    \/ SendToError
    \/ NextIteration

Spec == Init /\ [][Next]_vars

(***************************************************************************)
(* The codec on its own: parse applied to a payload, and serialise         *)
(* followed by parse applied to a message.                                 *)
(***************************************************************************)
CodecInit ==
    /\ LoopInit
    /\ \/ /\ c_pc = "payload"
          /\ c_payload \in Payloads(MaxLabels)
          /\ c_msg = << >>
       \/ /\ c_pc = "message"
          /\ c_payload = NoBuf
          /\ c_msg \in { << m >> : m \in Messages(MaxLabels) }
    /\ c_result = NoResult
    /\ c_wire = NoWire

ParseStep ==
    /\ c_pc = "payload"
    /\ c_result' = Parse(c_payload)
    /\ c_pc' = "parsed"
    /\ UNCHANGED << c_payload, c_msg, c_wire >>
    /\ UNCHANGED loop_vars

SerialiseStep ==
    /\ c_pc = "message"
    /\ c_wire' = Serialise(c_msg[1], ZeroBuf)
    /\ c_pc' = "serialised"
    /\ UNCHANGED << c_payload, c_msg, c_result >>
    /\ UNCHANGED loop_vars

ReparseStep ==
    /\ c_pc = "serialised"
    /\ ~c_wire.panic
    /\ c_result' = Parse(c_wire.buf)
    /\ c_pc' = "reparsed"
    /\ UNCHANGED << c_payload, c_msg, c_wire >>
    /\ UNCHANGED loop_vars

CodecNext ==
    \/ ParseStep
    \/ SerialiseStep
    \/ ReparseStep

CodecSpec == CodecInit /\ [][CodecNext]_vars

(***************************************************************************)
(* Properties.  The wire format is read here straight from the bytes of a  *)
(* buffer, independently of Parse.                                         *)
(***************************************************************************)
WireQuestions(buf) == ByteAt(buf, 4) * 256 + ByteAt(buf, 5)

WireId(buf) == << ByteAt(buf, 0), ByteAt(buf, 1) >>

(* Encoded length (length bytes, label bytes and the terminating zero) of  *)
(* the name at offset 12 when every label is at most 63 long and the name  *)
(* ends inside the buffer; 0 otherwise.                                    *)
RECURSIVE WireNameLen(_, _)
WireNameLen(buf, pos) ==
    IF 12 + pos >= 512 THEN 0
    ELSE IF ByteAt(buf, 12 + pos) > 63 THEN 0
    ELSE IF ByteAt(buf, 12 + pos) = 0 THEN pos + 1
    ELSE WireNameLen(buf, pos + ByteAt(buf, 12 + pos) + 1)

(* Offset within the name of the first length byte of 64 or more that the  *)
(* chain of labels from offset 12 arrives at before a zero label; -1 when  *)
(* there is none.                                                          *)
RECURSIVE FirstLongLabel(_, _)
FirstLongLabel(buf, pos) ==
    IF 12 + pos >= 512 THEN -1
    ELSE IF ByteAt(buf, 12 + pos) > 63 THEN pos
    ELSE IF ByteAt(buf, 12 + pos) = 0 THEN -1
    ELSE FirstLongLabel(buf, pos + ByteAt(buf, 12 + pos) + 1)

(* The stored name is a chain of labels of 1..63 bytes whose terminating   *)
(* zero is its last byte.                                                  *)
RECURSIVE StoredNameValid(_, _)
StoredNameValid(query, pos) ==
    IF pos >= query.domain_name_len THEN FALSE
    ELSE IF ByteAt(query.domain_name, pos) = 0 THEN pos = query.domain_name_len - 1
    ELSE IF ByteAt(query.domain_name, pos) > 63 THEN FALSE
    ELSE StoredNameValid(query, pos + ByteAt(query.domain_name, pos) + 1)

WellFormed(m) ==
    /\ m.questions <= 1
    /\ m.query.domain_name_len <= 253
    /\ StoredNameValid(m.query, 0)
    /\ Len(m.answer) <= 1

AnswerMatchesCount(m) == (m.answer # << >>) <=> (m.answer_records > 0)

SameMessage(a, b) ==
    /\ a.transaction_id = b.transaction_id
    /\ a.flags = b.flags
    /\ a.questions = b.questions
    /\ a.answer_records = b.answer_records
    /\ a.authority_records = b.authority_records
    /\ a.additional_records = b.additional_records
    /\ a.query.domain_name_len = b.query.domain_name_len
    /\ \A i \in 0..(b.query.domain_name_len - 1) :
           ByteAt(a.query.domain_name, i) = ByteAt(b.query.domain_name, i)
    /\ a.query.ty = b.query.ty
    /\ a.query.class = b.query.class
    /\ a.answer = b.answer

(* C1 as stated: every well-formed message (at most one question, a valid  *)
(* name of at most 253 bytes, zero or one answer) serialised into a zeroed *)
(* buffer parses back to an equal message.                                 *)
C1_RoundTripAnyAnswer ==
    (c_pc = "reparsed" /\ WellFormed(c_msg[1]))
        => /\ c_result.kind = "Ok"
           /\ SameMessage(c_result.msg[1], c_msg[1])

(* C1 amended: the round trip holds for every well-formed message whose    *)
(* answer is present exactly when its answer count is greater than 0.      *)
C1_RoundTrip ==
    (c_pc = "reparsed" /\ WellFormed(c_msg[1]) /\ AnswerMatchesCount(c_msg[1]))
        => /\ c_result.kind = "Ok"
           /\ SameMessage(c_result.msg[1], c_msg[1])

C1_Witness ==
    /\ c_pc = "reparsed"
    /\ WellFormed(c_msg[1])
    /\ AnswerMatchesCount(c_msg[1])
    /\ c_msg[1].answer = << AnswerB >>
    /\ c_msg[1].query.domain_name_len = 253
    /\ ByteAt(c_msg[1].query.domain_name, 252) = 0
    /\ c_result.kind = "Ok"

(* C2: after respond, the client's message carries the transaction id of   *)
(* the client's datagram, has flag bit 0x8000 set, answer count 1, and the *)
(* answer of the parsed upstream reply.                                    *)
C2_MergeCorrectness ==
    pc = "sent"
        => /\ request[1].transaction_id = WireId(recv_buf)
           /\ (request[1].flags \div 32768) % 2 = 1
           /\ request[1].answer_records = 1
           /\ request[1].answer = forward_response[1].answer

C2_Witness ==
    /\ pc = "sent"
    /\ WireId(recv_buf) = << 171, 205 >>
    /\ WireId(fwd_recv_buf) = << 0, 1 >>
    /\ request[1].answer = << AnswerA >>

(* C3: with at most one question and every label at most 63 bytes, parse   *)
(* succeeds on a name of exactly 253 encoded bytes and fails with          *)
(* DnsNameTooLong on a name of 254 or more.                                *)
C3_NameLengthBoundary ==
    (c_pc = "parsed" /\ WireQuestions(c_payload) <= 1)
        => /\ WireNameLen(c_payload, 0) = 253
                => /\ c_result.kind = "Ok"
                   /\ c_result.msg[1].query.domain_name_len = 253
           /\ WireNameLen(c_payload, 0) >= 254
                => /\ c_result.kind = "DnsNameTooLong"
                   /\ c_result.msg = << >>

C3_Witness ==
    /\ c_pc = "parsed"
    /\ WireQuestions(c_payload) = 1
    /\ WireNameLen(c_payload, 0) = 253
    /\ c_result.kind = "Ok"
    /\ c_result.msg[1].answer # << >>

(* C4: with at most one question, when the label loop arrives at a length  *)
(* byte of 64 or more before a zero label (the loop stops once the name    *)
(* offset exceeds 253, so the byte lies at a name offset of at most 253),  *)
(* parse fails with DnsLabelTooLong and returns no message.                *)
C4_LabelRejection ==
    (/\ c_pc = "parsed"
     /\ WireQuestions(c_payload) <= 1
     /\ FirstLongLabel(c_payload, 0) \in 0..253)
        => /\ c_result.kind = "DnsLabelTooLong"
           /\ c_result.msg = << >>

C4_Witness ==
    /\ c_pc = "parsed"
    /\ WireQuestions(c_payload) = 1
    /\ FirstLongLabel(c_payload, 0) = 192
    /\ ByteAt(c_payload, 12 + 192) = 64
    /\ c_result.kind = "DnsLabelTooLong"

(* C5: a question count above 1 always yields OnlyOneQuestionSupported,    *)
(* whatever the name is and without reading it; a question count of 0 or 1 *)
(* never does.                                                             *)
C5_QuestionCountRejection ==
    c_pc = "parsed"
        => /\ WireQuestions(c_payload) > 1
                => /\ c_result.kind = "OnlyOneQuestionSupported"
                   /\ c_result.msg = << >>
                   /\ c_result.max_index < 12
           /\ WireQuestions(c_payload) <= 1
                => c_result.kind # "OnlyOneQuestionSupported"

C5_Witness ==
    /\ c_pc = "parsed"
    /\ WireQuestions(c_payload) = 256
    /\ FirstLongLabel(c_payload, 0) = 0
    /\ c_result.kind = "OnlyOneQuestionSupported"

(* C6: a step in which the parse of the client datagram or of the upstream *)
(* reply fails ends the iteration: nothing has been or is sent to the      *)
(* client, nothing more is sent upstream, the process has not panicked,    *)
(* and main is back at recv_from with its locals gone, as at the start.    *)
ParseFails ==
    \/ pc = "parse_request" /\ Parse(recv_buf).kind # "Ok"
    \/ pc = "parse_response" /\ Parse(fwd_recv_buf).kind # "Ok"

C6_MalformedPacketDropped ==
    [][ParseFails
         => /\ pc' = "recv"
            /\ client_datagram' = << >>
            /\ fwd_datagram' = fwd_datagram
            /\ printed' \in ParseErrors
            /\ recv_buf' = NoBuf
            /\ request' = << >>
            /\ fwd_recv_buf' = NoBuf
            /\ forward_response' = << >>]_vars

(* A request is served after an earlier iteration was dropped.             *)
C6_Witness ==
    /\ dropped >= 1
    /\ pc = "sent"
    /\ client_datagram # << >>

(* C7 as stated: in every message held by the loop, and in every datagram  *)
(* it sends, the answer record is present iff the answer count is above 0. *)
DatagramAnswerMatchesCount(d, name_len) ==
    (Len(d) = 12 + name_len + 4 + 16) <=> (d[7] * 256 + d[8] > 0)

C7_AnswerPresenceMatchesCount ==
    /\ \A i \in DOMAIN request : AnswerMatchesCount(request[i])
    /\ \A i \in DOMAIN forward_response : AnswerMatchesCount(forward_response[i])
    /\ pc = "await_upstream"
         => DatagramAnswerMatchesCount(fwd_datagram, request[1].query.domain_name_len)
    /\ pc = "sent"
         => DatagramAnswerMatchesCount(client_datagram, request[1].query.domain_name_len)

(* C8: respond leaves the transaction id, the question count and the query *)
(* of the original message as they were.                                   *)
C8_RespondFrame ==
    [][pc = "respond"
         => /\ request'[1].transaction_id = request[1].transaction_id
            /\ request'[1].questions = request[1].questions
            /\ request'[1].query = request[1].query]_vars

C8_Witness ==
    /\ pc = "sent"
    /\ forward_response[1].transaction_id # request[1].transaction_id
    /\ forward_response[1].query # request[1].query
    /\ request[1].query.domain_name_len = 17

(* C9 as stated: the transaction id of the forward query differs from the  *)
(* transaction id of the client request.                                   *)
C9_ForwardIdDistinct ==
    pc = "await_upstream"
        => << fwd_datagram[1], fwd_datagram[2] >> # WireId(recv_buf)

(* C9 amended: the forward query always carries the fixed id 0x1337,       *)
(* whatever the client's id is, so it differs from the client's id exactly *)
(* when the client's id is not 0x1337.                                     *)
C9_ForwardIdFixed ==
    pc = "await_upstream"
        => /\ << fwd_datagram[1], fwd_datagram[2] >> = << 19, 55 >>
           /\ (<< fwd_datagram[1], fwd_datagram[2] >> # WireId(recv_buf))
                 <=> (WireId(recv_buf) # << 19, 55 >>)

C9_Witness ==
    /\ pc = "await_upstream"
    /\ WireId(recv_buf) = << 171, 205 >>
    /\ << fwd_datagram[1], fwd_datagram[2] >> = << 19, 55 >>

(* C10: parse reads no index above 284 (so none outside the 512 bytes),    *)
(* serialise never runs outside its destination, writes at most 285 bytes  *)
(* and returns 12 + domain_name_len + 4, plus 16 when an answer is present.*)
C10_NoBufferOverrun ==
    /\ pc # "panic_index"
    /\ max_read <= 284
    /\ max_read < 512
    /\ written <= 285
    /\ pc = "await_upstream"
         => /\ written = 12 + request[1].query.domain_name_len + 4
            /\ Len(fwd_datagram) = written
    /\ pc = "sent"
         => /\ written = 12 + request[1].query.domain_name_len + 4
                           + (IF request[1].answer # << >> THEN 16 ELSE 0)
            /\ Len(client_datagram) = written

C10_Witness ==
    /\ pc = "sent"
    /\ max_read = 284
    /\ written = 285

====
